---- MODULE Spec2Model ----
(***************************************************************************)
(* Model of src/cofounder_bot.py: a single sequential process that loads   *)
(* its configuration and its cursor, then loops forever over               *)
(* run_cycle (fetch, connect until the cursor is met, save the cursor,     *)
(* notify) and a sleep.                                                    *)
(*                                                                         *)
(* Python values are records [t, v]: t is the Python type ("str", "int",   *)
(* "null" for None) and v a code.  A string is an opaque code 0..NumIds,   *)
(* where 0 is the empty string "" and 1..NumIds are distinct non-empty     *)
(* strings without surrounding whitespace (profile ids, a token, a URL).   *)
(* A profile is represented by its "_id"; firstName and lastName only      *)
(* feed the printed lines and the text of the notification.                *)
(***************************************************************************)
EXTENDS Integers, Sequences, FiniteSets, TLC

\* Number of distinct non-empty strings (profile ids) of the model.
NumIds == 3
\* Longest profile list a fetch returns in the model (SEARCH_LIMIT in the code).
MaxLen == 3
\* Profiles a fetch returns of the remote list under FeedSpec (SEARCH_LIMIT, kept
\* below NumIds so that the list outgrows the page).
FeedPage == 2

VARIABLES
    env,              \* the process environment after load_dotenv (.env)
    disk,             \* the content of STATE_PATH (state.json)
    pc,               \* position of the process in main / run_cycle
    exit,             \* "running", or how the process ended: "stopped" (the
                      \* loop's break) or the exception that left main
    cfg,              \* main's (token, message, env_last_id, webhook_url)
    last_profile_id,  \* main's last_profile_id, run_cycle's parameter
    profiles,         \* run_cycle: the fetched list (ids)
    idx,              \* run_cycle: position of the for loop in profiles
    first_id,         \* run_cycle: first_id / new_last
    sent,             \* run_cycle: sent
    connected,        \* run_cycle: connected (ids of the successful connects)
    fetched,          \* this cycle's fetch outcome: "none", "error", "empty", "ok"
    attempts,         \* this cycle's send_connect calls, in order (profile ids)
    failures,         \* this cycle's send_connect calls that raised (positions in profiles)
    writes,           \* this cycle's completed writes of STATE_PATH
    posts,            \* this cycle's webhook posts: [ok, content], in order
    first_cycle,      \* TRUE from main's load_state() to the end of the first cycle
    \* History of the run, recorded under HistorySpec:
    written,          \* save_state has completed a write of STATE_PATH
    prev_cycle,       \* at the start of a cycle, of the cycle before it: the
                      \* list it fetched (<< >> unless it ran to its end on a
                      \* non-empty list) and whether a send_connect raised
    repeat,           \* this cycle fetched the list of the completed cycle
                      \* before it: "no", "yes", or "after_failure" when a
                      \* send_connect of that cycle raised
    \* The remote list, recorded under FeedSpec:
    feed,             \* the profiles of the search endpoint, newest first
    front_only,       \* since the process started the list has changed only
                      \* by fresh ids added at its front
    tried,            \* ids that got a send_connect call in an earlier cycle of this run
    failed_before     \* ids whose send_connect raised in an earlier cycle of this run

vars == << env, disk, pc, exit, cfg, last_profile_id, profiles, idx, first_id,
           sent, connected, fetched, attempts, failures, writes, posts,
           first_cycle,
           written, prev_cycle, repeat, feed, front_only, tried, failed_before >>

history == << written, prev_cycle, repeat >>
remote == << feed, front_only, tried, failed_before >>

cycle_locals == << profiles, idx, first_id, sent, connected >>
cycle_record == << fetched, attempts, failures, writes, posts >>

----------------------------------------------------------------------------
(* Python values *)

Str(n) == [t |-> "str", v |-> n]
IntVal(n) == [t |-> "int", v |-> n]
None == [t |-> "null", v |-> 0]
EmptyStr == Str(0)

Ids == 1 .. NumIds
StrValues == { Str(n) : n \in 0 .. NumIds }
NonStrValues == { None, IntVal(0), IntVal(1) }

\* Python truthiness: "", 0 and None are false.
Truthy(x) == x.t # "null" /\ x.v # 0

\* Python's  a or b
PyOr(a, b) == IF Truthy(a) THEN a ELSE b

\* os.getenv(name, default) on the environment e
getenv(e, name, default) == IF e[name] = None THEN default ELSE e[name]

\* str.strip(): the model's strings carry no surrounding whitespace, a
\* whitespace-only value is held as its stripped form "".
strip(s) == s

\* Non-empty sequences over S of length at most n.
SeqsUpTo(S, n) == UNION { [1 .. k -> S] : k \in 1 .. n }

----------------------------------------------------------------------------
(* State file *)

File(kind, has, val) == [kind |-> kind, has |-> has, val |-> val]

\* What STATE_PATH can hold before the program first writes it.
FileContents ==
    { File(k, FALSE, None) :
        k \in {"missing", "unreadable", "baddecode", "badjson", "nonobject"} }
    \cup { File("object", FALSE, None) }
    \cup { File("object", TRUE, x) : x \in {Str(0), Str(1), Str(2)} \cup NonStrValues }

\* The exception load_state's try body raises on file f, "" when it raises none.
\* ("IOError" names the OSError of the read; SaveFail's "OSError" is the same
\* Python class, raised by the write.)
LoadRaises(f) ==
    CASE f.kind = "unreadable" -> "IOError"
      [] f.kind = "baddecode"  -> "UnicodeDecodeError"
      [] f.kind = "badjson"    -> "JSONDecodeError"
      [] f.kind = "nonobject"  -> "AttributeError"
      [] OTHER                 -> ""

\* Mutant: only the read error is caught.
LoadCaught_ioonly(e) == e \in {"IOError"}

\* except (json.JSONDecodeError, IOError)
LoadCaught(e) == e \in {"JSONDecodeError", "IOError"}

\* load_state(): [raised |-> the exception that escapes ("" for none),
\*                value |-> the value returned]
load_state(f) ==
    IF f.kind = "missing" THEN [raised |-> "", value |-> EmptyStr]
    ELSE IF LoadRaises(f) # "" THEN
        IF LoadCaught(LoadRaises(f))
        THEN [raised |-> "", value |-> EmptyStr]
        ELSE [raised |-> LoadRaises(f), value |-> EmptyStr]
    ELSE [raised |-> "", value |-> IF f.has THEN f.val ELSE EmptyStr]

\* Mutant: save_state writes an empty cursor.
save_state_blank(id) == File("object", TRUE, EmptyStr)

\* Mutant: save_state writes the cursor under another key.
save_state_otherkey(id) == File("object", FALSE, None)

\* save_state(last_profile_id): the file it leaves
save_state(id) == File("object", TRUE, Str(id))

----------------------------------------------------------------------------
(* Configuration *)

\* The environments the process may be started in: a required variable is
\* absent (None), empty or set, an optional one absent or set.
Envs ==
    [ BEARER_TOKEN        : {None, Str(0), Str(1)},
      MESSAGE             : {None, Str(0), Str(1)},
      LAST_PROFILE_ID     : {None, Str(1)},
      DISCORD_WEBHOOK_URL : {None, Str(1)} ]

NoCfg == [token |-> None, message |-> None, env_last_id |-> None, webhook_url |-> None]

\* Mutant: load_env does not check MESSAGE.
load_env_nomessage(e) ==
    IF ~Truthy(e.BEARER_TOKEN) THEN [exits |-> TRUE, cfg |-> NoCfg]
    ELSE [exits |-> FALSE,
          cfg |-> [token |-> e.BEARER_TOKEN,
                   message |-> e.MESSAGE,
                   env_last_id |-> strip(getenv(e, "LAST_PROFILE_ID", EmptyStr)),
                   webhook_url |-> strip(getenv(e, "DISCORD_WEBHOOK_URL", EmptyStr))]]

\* load_env(): [exits |-> SystemExit raised, cfg |-> the tuple returned]
load_env(e) ==
    LET token == e.BEARER_TOKEN
        message == e.MESSAGE
    IN  IF ~Truthy(token) THEN [exits |-> TRUE, cfg |-> NoCfg]
        ELSE IF ~Truthy(message) THEN [exits |-> TRUE, cfg |-> NoCfg]
        ELSE [exits |-> FALSE,
              cfg |-> [token |-> token,
                       message |-> message,
                       env_last_id |-> strip(getenv(e, "LAST_PROFILE_ID", EmptyStr)),
                       webhook_url |-> strip(getenv(e, "DISCORD_WEBHOOK_URL", EmptyStr))]]

\* Mutant: the configured seed is preferred to the state file.
StartupCursor_seedfirst(loaded, env_last_id) == PyOr(env_last_id, loaded)

\* main: last_profile_id = load_state() or env_last_id
StartupCursor(loaded, env_last_id) == PyOr(loaded, env_last_id)

----------------------------------------------------------------------------
(* run_cycle's decisions *)

\* if not profiles
NoProfiles(ps) == Len(ps) = 0

\* Mutant: the cursor is taken from the last profile of the page.
FirstId_last(ps) == ps[Len(ps)]

\* first_id = profiles[0]["_id"]
FirstId(ps) == ps[1]

\* Mutant: no profile is taken for the cursor profile.
ReachedLast_never(pid, last) == FALSE

\* if pid == last_profile_id
ReachedLast(pid, last) == Str(pid) = last

\* Mutant: the empty page returns an empty cursor.
EmptyReturn_blank(last) == EmptyStr

\* return last_profile_id   (no profiles)
EmptyReturn(last) == last

\* Mutant: the notification is sent whatever the count.
ShouldNotify_always(n) == n >= 0

\* if sent > 0
ShouldNotify(n) == n > 0

\* send_discord_webhook: if not webhook_url: return
HasWebhook(url) == Truthy(url)

\* Mutant: send_discord_webhook lets the exception of the post out.
WebhookCaught_none(e) == FALSE

\* send_discord_webhook: except requests.RequestException
WebhookCaught(e) == e = "RequestException"

\* Mutant: main's loop has no except requests.RequestException.
MainHandles_norequest(e) ==
    CASE e = "KeyboardInterrupt" -> "break"
      [] OTHER -> "propagate"

\* The exceptions main's loop answers, and how: "continue" (except
\* requests.RequestException), "break" (except KeyboardInterrupt), "propagate".
MainHandles(e) ==
    CASE e = "RequestException" -> "continue"
      [] e = "KeyboardInterrupt" -> "break"
      [] OTHER -> "propagate"

----------------------------------------------------------------------------
(* The process *)

NoCycleLocals ==
    /\ profiles' = << >>
    /\ idx' = 0
    /\ first_id' = 0
    /\ sent' = 0
    /\ connected' = << >>

\* A cycle starts: nothing has happened in it yet.
NewCycleRecord ==
    /\ fetched' = "none"
    /\ attempts' = << >>
    /\ failures' = {}
    /\ writes' = 0
    /\ posts' = << >>

\* The process ends: its memory is gone, the environment and the state file stay.
Exits(how) ==
    /\ pc' = "exited"
    /\ exit' = how
    /\ cfg' = NoCfg
    /\ last_profile_id' = None
    /\ NoCycleLocals
    /\ NewCycleRecord
    /\ first_cycle' = FALSE

\* The process is started: any .env, any state file.
Start ==
    /\ env \in Envs
    /\ disk \in FileContents
    /\ pc = "load_env"
    /\ exit = "running"
    /\ cfg = NoCfg
    /\ last_profile_id = None
    /\ profiles = << >>
    /\ idx = 0
    /\ first_id = 0
    /\ sent = 0
    /\ connected = << >>
    /\ fetched = "none"
    /\ attempts = << >>
    /\ failures = {}
    /\ writes = 0
    /\ posts = << >>
    /\ first_cycle = FALSE

NoCycle == [page |-> << >>, failed |-> FALSE]

\* Nothing is recorded of the run.
NoHistory ==
    /\ written = FALSE
    /\ prev_cycle = NoCycle
    /\ repeat = "no"

\* No remote list is modelled: a fetch returns any list.
NoRemote ==
    /\ feed = << >>
    /\ front_only = TRUE
    /\ tried = {}
    /\ failed_before = {}

Init == Start /\ NoHistory /\ NoRemote

\* main: token, message, env_last_id, webhook_url = load_env()
LoadEnv ==
    /\ pc = "load_env"
    /\ LET r == load_env(env)
       IN  IF r.exits
           THEN Exits("SystemExit")
           ELSE /\ pc' = "load_state"
                /\ cfg' = r.cfg
                /\ UNCHANGED << exit, last_profile_id, cycle_locals, cycle_record,
                                first_cycle >>
    /\ UNCHANGED << env, disk >>

\* main: last_profile_id = load_state() or env_last_id
LoadState ==
    /\ pc = "load_state"
    /\ LET r == load_state(disk)
       IN  IF r.raised # ""
           THEN Exits(r.raised)
           ELSE /\ pc' = "fetch"
                /\ last_profile_id' = StartupCursor(r.value, cfg.env_last_id)
                /\ first_cycle' = TRUE
                /\ UNCHANGED << exit, cfg, cycle_locals, cycle_record >>
    /\ UNCHANGED << env, disk >>

\* run_cycle: fetch_profiles raises requests.RequestException (requests.get
\* or raise_for_status); run_cycle does not catch it, main's loop does.
FetchError ==
    /\ pc = "fetch"
    /\ IF MainHandles("RequestException") = "continue"
       THEN /\ pc' = "sleep"
            /\ fetched' = "error"
            /\ UNCHANGED << exit, cfg, last_profile_id, cycle_locals,
                            attempts, failures, writes, posts, first_cycle >>
       ELSE Exits("RequestException")
    /\ UNCHANGED << env, disk >>

\* run_cycle: the fetch answers with the list ps
Fetch(ps) ==
    /\ pc = "fetch"
    /\ IF NoProfiles(ps)
       THEN /\ fetched' = "empty"
            /\ last_profile_id' = EmptyReturn(last_profile_id)
            /\ pc' = "sleep"
            /\ UNCHANGED cycle_locals
       ELSE /\ fetched' = "ok"
            /\ profiles' = ps
            /\ first_id' = FirstId(ps)
            /\ sent' = 0
            /\ connected' = << >>
            /\ idx' = 1
            /\ pc' = "loop"
            /\ UNCHANGED last_profile_id
    /\ UNCHANGED << env, disk, exit, cfg,
                    attempts, failures, writes, posts, first_cycle >>

\* for p in profiles: exhausted
LoopEnd ==
    /\ pc = "loop"
    /\ idx > Len(profiles)
    /\ pc' = "save"
    /\ UNCHANGED << env, disk, exit, cfg, last_profile_id, cycle_locals, cycle_record,
                    first_cycle >>

\* Mutant: the seen profile is skipped (continue) instead of ending the loop.
LoopBreak_continue ==
    /\ pc = "loop"
    /\ idx <= Len(profiles)
    /\ ReachedLast(profiles[idx], last_profile_id)
    /\ idx' = idx + 1
    /\ UNCHANGED << env, disk, pc, exit, cfg, last_profile_id, profiles, first_id,
                    sent, connected, cycle_record, first_cycle >>

\* if pid == last_profile_id: break
LoopBreak ==
    /\ pc = "loop"
    /\ idx <= Len(profiles)
    /\ ReachedLast(profiles[idx], last_profile_id)
    /\ pc' = "save"
    /\ UNCHANGED << env, disk, exit, cfg, last_profile_id, cycle_locals, cycle_record,
                    first_cycle >>

\* Mutant: the cursor is saved after every successful connect.
ConnectOk_saving ==
    /\ pc = "loop"
    /\ idx <= Len(profiles)
    /\ ~ReachedLast(profiles[idx], last_profile_id)
    /\ attempts' = Append(attempts, profiles[idx])
    /\ sent' = sent + 1
    /\ connected' = Append(connected, profiles[idx])
    /\ idx' = idx + 1
    /\ disk' = save_state(profiles[idx])
    /\ UNCHANGED << env, pc, exit, cfg, last_profile_id, profiles, first_id,
                    fetched, failures, writes, posts, first_cycle >>

\* send_connect returns: sent += 1, connected.append(...)
ConnectOk ==
    /\ pc = "loop"
    /\ idx <= Len(profiles)
    /\ ~ReachedLast(profiles[idx], last_profile_id)
    /\ attempts' = Append(attempts, profiles[idx])
    /\ sent' = sent + 1
    /\ connected' = Append(connected, profiles[idx])
    /\ idx' = idx + 1
    /\ UNCHANGED << env, disk, pc, exit, cfg, last_profile_id, profiles, first_id,
                    fetched, failures, writes, posts, first_cycle >>

\* Mutant: the exception of send_connect is not caught in the loop; it
\* leaves run_cycle and main's loop prints it and sleeps.
ConnectFail_propagate ==
    /\ pc = "loop"
    /\ idx <= Len(profiles)
    /\ ~ReachedLast(profiles[idx], last_profile_id)
    /\ attempts' = Append(attempts, profiles[idx])
    /\ failures' = failures \cup {idx}
    /\ pc' = "sleep"
    /\ UNCHANGED << env, disk, exit, cfg, last_profile_id, cycle_locals,
                    fetched, writes, posts, first_cycle >>

\* send_connect raises requests.RequestException: except ... print, next profile
ConnectFail ==
    /\ pc = "loop"
    /\ idx <= Len(profiles)
    /\ ~ReachedLast(profiles[idx], last_profile_id)
    /\ attempts' = Append(attempts, profiles[idx])
    /\ failures' = failures \cup {idx}
    /\ idx' = idx + 1
    /\ UNCHANGED << env, disk, pc, exit, cfg, last_profile_id, profiles, first_id,
                    sent, connected, fetched, writes, posts, first_cycle >>

\* new_last = first_id; save_state(new_last)
SaveOk ==
    /\ pc = "save"
    /\ disk' = save_state(first_id)
    /\ writes' = writes + 1
    /\ pc' = "notify"
    /\ UNCHANGED << env, exit, cfg, last_profile_id, cycle_locals,
                    fetched, attempts, failures, posts, first_cycle >>

\* save_state: write_text raises OSError, which neither run_cycle nor main
\* catches.  The file is left as it was (open failed) or truncated (the
\* write failed after open).
SaveFail ==
    /\ pc = "save"
    /\ disk' \in {disk, File("badjson", FALSE, None)}
    /\ IF MainHandles("OSError") = "propagate" THEN Exits("OSError") ELSE Exits("stopped")
    /\ UNCHANGED env

\* if sent > 0: send_discord_webhook(...) posts, and the post succeeds (ok)
\* or raises requests.RequestException, which send_discord_webhook catches
\* and prints; return new_last.  (An exception it did not catch would leave
\* run_cycle before the return and reach main's loop.)
Webhook(ok) ==
    /\ pc = "notify"
    /\ ShouldNotify(sent)
    /\ HasWebhook(cfg.webhook_url)
    /\ posts' = Append(posts, [ok |-> ok, content |-> connected])
    /\ IF ok \/ WebhookCaught("RequestException")
       THEN /\ last_profile_id' = Str(first_id)
            /\ pc' = "sleep"
            /\ UNCHANGED << exit, cfg, cycle_locals, fetched, attempts, failures,
                            writes, first_cycle >>
       ELSE IF MainHandles("RequestException") = "continue"
       THEN /\ pc' = "sleep"
            /\ UNCHANGED << exit, cfg, last_profile_id, cycle_locals, fetched,
                            attempts, failures, writes, first_cycle >>
       ELSE /\ pc' = "exited"
            /\ exit' = "RequestException"
            /\ UNCHANGED << cfg, last_profile_id, cycle_locals, fetched,
                            attempts, failures, writes, first_cycle >>
    /\ UNCHANGED << env, disk >>

\* sent == 0, or send_discord_webhook returns at once (no URL); return new_last
NoWebhook ==
    /\ pc = "notify"
    /\ ~(ShouldNotify(sent) /\ HasWebhook(cfg.webhook_url))
    /\ last_profile_id' = Str(first_id)
    /\ pc' = "sleep"
    /\ UNCHANGED << env, disk, exit, cfg, cycle_locals, cycle_record, first_cycle >>

\* time.sleep(LOOP_INTERVAL_SEC) returns; while True: the next cycle starts
Sleep ==
    /\ pc = "sleep"
    /\ pc' = "fetch"
    /\ NoCycleLocals
    /\ NewCycleRecord
    /\ first_cycle' = FALSE
    /\ UNCHANGED << env, disk, exit, cfg, last_profile_id >>

\* Positions inside main's try block (the call of run_cycle).
InTry == {"fetch", "loop", "save", "notify"}

\* KeyboardInterrupt: inside the try it is caught (print "Stopped.", break);
\* anywhere else (startup, time.sleep of the loop) it propagates out of main.
Interrupt ==
    /\ pc # "exited"
    /\ Exits(IF pc \in InTry /\ MainHandles("KeyboardInterrupt") = "break"
             THEN "stopped" ELSE "KeyboardInterrupt")
    /\ UNCHANGED << env, disk >>

\* The process is started again: same .env, same state file.
Restart ==
    /\ pc = "exited"
    /\ pc' = "load_env"
    /\ exit' = "running"
    /\ UNCHANGED << env, disk, cfg, last_profile_id, cycle_locals, cycle_record,
                    first_cycle >>

\* The step leaves the history and the remote list as they are.
Unrecorded == UNCHANGED << history, remote >>

Next ==
    \/ LoadEnv /\ Unrecorded
    \/ LoadState /\ Unrecorded
    \/ FetchError /\ Unrecorded
    \/ \E ps \in {<< >>} \cup SeqsUpTo(Ids, MaxLen) : Fetch(ps) /\ Unrecorded
    \/ LoopEnd /\ Unrecorded
    \/ LoopBreak /\ Unrecorded
    \/ ConnectOk /\ Unrecorded
    \/ ConnectFail /\ Unrecorded
    \/ SaveOk /\ Unrecorded
    \/ SaveFail /\ Unrecorded
    \/ \E ok \in BOOLEAN : Webhook(ok) /\ Unrecorded
    \/ NoWebhook /\ Unrecorded
    \/ Sleep /\ Unrecorded
    \/ Interrupt /\ Unrecorded
    \/ Restart /\ Unrecorded

Spec == Init /\ [][Next]_vars

----------------------------------------------------------------------------
(* The process with the history of its run *)

\* What a step adds to the history: a completed save_state marks the file as
\* written; the list of a cycle that ran to its end is kept until the next
\* fetch, which is compared with it.
Record ==
    /\ written' = (written \/ writes' > writes)
    /\ prev_cycle' = IF pc = "sleep" /\ fetched = "ok"
                     THEN [page |-> profiles, failed |-> failures # {}]
                     ELSE NoCycle
    /\ repeat' = IF pc = "fetch"
                 THEN IF fetched' = "ok" /\ profiles' = prev_cycle.page
                      THEN IF prev_cycle.failed THEN "after_failure" ELSE "yes"
                      ELSE "no"
                 ELSE IF pc' \in {"fetch", "exited"} THEN "no" ELSE repeat
    /\ UNCHANGED remote

HistoryNext ==
    \/ LoadEnv /\ Record
    \/ LoadState /\ Record
    \/ FetchError /\ Record
    \/ \E ps \in {<< >>} \cup SeqsUpTo(Ids, MaxLen) : Fetch(ps) /\ Record
    \/ LoopEnd /\ Record
    \/ LoopBreak /\ Record
    \/ ConnectOk /\ Record
    \/ ConnectFail /\ Record
    \/ SaveOk /\ Record
    \/ SaveFail /\ Record
    \/ \E ok \in BOOLEAN : Webhook(ok) /\ Record
    \/ NoWebhook /\ Record
    \/ Sleep /\ Record
    \/ Interrupt /\ Record
    \/ Restart /\ Record

HistorySpec == Init /\ [][HistoryNext]_vars

----------------------------------------------------------------------------
(* The process against a remote list *)

Members(q) == { q[i] : i \in 1 .. Len(q) }

\* The remote lists: profiles with distinct ids.
Feeds == { f \in {<< >>} \cup SeqsUpTo(Ids, NumIds) : Cardinality(Members(f)) = Len(f) }

\* Mutant: the fetch returns the end of the list.
Page_last(f) == SubSeq(f, IF Len(f) < FeedPage THEN 1 ELSE Len(f) - FeedPage + 1, Len(f))

\* fetch_profiles: params = {"limit": SEARCH_LIMIT, "page": SEARCH_PAGE}, the
\* first page of the list
Page(f) == SubSeq(f, 1, IF Len(f) < FeedPage THEN Len(f) ELSE FeedPage)

\* f is the list g with fresh ids added at its front.
GrownAtFront(f, g) ==
    /\ Len(f) >= Len(g)
    /\ SubSeq(f, Len(f) - Len(g) + 1, Len(f)) = g

\* A new profile, with an id the list does not hold, appears at the front of
\* the remote list.  The process sees the list only when it fetches: the
\* changes since its last fetch are taken just before the next one.
Publish(id) ==
    /\ pc = "fetch"
    /\ id \notin Members(feed)
    /\ feed' = << id >> \o feed
    /\ UNCHANGED << env, disk, pc, exit, cfg, last_profile_id, cycle_locals,
                    cycle_record, first_cycle, history, front_only, tried,
                    failed_before >>

\* The remote list changes in any other way: profiles leave it, come back or
\* change places.
Change(f) ==
    /\ pc = "fetch"
    /\ ~GrownAtFront(f, feed)
    /\ feed' = f
    /\ front_only' = FALSE
    /\ UNCHANGED << env, disk, pc, exit, cfg, last_profile_id, cycle_locals,
                    cycle_record, first_cycle, history, tried, failed_before >>

\* What a step of the process adds to the record of its run: at the end of a
\* cycle the ids it called send_connect for, and those whose call raised; a
\* process that ends leaves none, and a new process starts a new run.
Track ==
    /\ tried' = IF pc' = "exited" THEN {}
                ELSE IF pc = "sleep" THEN tried \cup Members(attempts)
                ELSE tried
    /\ failed_before' = IF pc' = "exited" THEN {}
                        ELSE IF pc = "sleep"
                             THEN failed_before \cup { profiles[i] : i \in failures }
                        ELSE failed_before
    /\ front_only' = (front_only \/ pc = "exited")
    /\ UNCHANGED << feed, history >>

\* The configurations with both required values.
ValidEnvs == { e \in Envs : Truthy(e.BEARER_TOKEN) /\ Truthy(e.MESSAGE) }

\* State files load_state reads without raising.
LoadableFiles == { f \in FileContents : load_state(f).raised = "" }

FeedInit ==
    /\ Start
    /\ env \in ValidEnvs
    /\ disk \in LoadableFiles
    /\ NoHistory
    /\ feed \in Feeds
    /\ front_only = TRUE
    /\ tried = {}
    /\ failed_before = {}

FeedNext ==
    \/ LoadEnv /\ Track
    \/ LoadState /\ Track
    \/ FetchError /\ Track
    \/ Fetch(Page(feed)) /\ Track
    \/ LoopEnd /\ Track
    \/ LoopBreak /\ Track
    \/ ConnectOk /\ Track
    \/ ConnectFail /\ Track
    \/ SaveOk /\ Track
    \/ SaveFail /\ Track
    \/ \E ok \in BOOLEAN : Webhook(ok) /\ Track
    \/ NoWebhook /\ Track
    \/ Sleep /\ Track
    \/ Interrupt /\ Track
    \/ Restart /\ Track
    \/ \E id \in Ids : Publish(id)
    \/ \E f \in Feeds : Change(f)

FeedSpec == FeedInit /\ [][FeedNext]_vars

----------------------------------------------------------------------------
(* Properties *)

\* Position of the first profile of ps whose id equals the cursor, Len(ps) + 1
\* when there is none.
CursorIndex(ps, cur) ==
    LET hits == { i \in 1 .. Len(ps) : Str(ps[i]) = cur }
    IN  IF hits = {} THEN Len(ps) + 1
        ELSE CHOOSE i \in hits : \A j \in hits : i <= j

\* The profiles of ps before the first occurrence of the cursor.
BeforeCursor(ps, cur) == SubSeq(ps, 1, CursorIndex(ps, cur) - 1)

\* The entries of ps at the positions 1..n that are not in skip, in order.
RECURSIVE Keep(_, _, _)
Keep(ps, n, skip) ==
    IF n = 0 THEN << >>
    ELSE IF n \in skip THEN Keep(ps, n - 1, skip)
    ELSE Append(Keep(ps, n - 1, skip), ps[n])

\* The cycle has left the for loop and has not returned yet.
LoopDone == pc \in {"save", "notify"}

\* The cycle's fetch gave a non-empty list and run_cycle has returned.
CycleDone == pc = "sleep" /\ fetched = "ok"

\* The state file holds the cursor id, as save_state writes it.
DiskHolds(id) == disk.kind = "object" /\ disk.has /\ disk.val = Str(id)

\* C1: in a cycle with a non-empty page, the connect attempts are exactly the
\* profiles before the first occurrence of the cursor id (the whole page when
\* it does not occur), once each and in page order: while the loop runs the
\* attempts are the profiles passed so far and never reach the cursor's
\* position, and when it has ended they are that whole prefix.
C1_AttemptsBeforeCursor ==
    /\ pc = "loop" =>
          /\ attempts = SubSeq(profiles, 1, idx - 1)
          /\ idx <= CursorIndex(profiles, last_profile_id)
    /\ LoopDone => attempts = BeforeCursor(profiles, last_profile_id)

C1_Witness ==
    /\ pc = "notify"
    /\ profiles = << 1, 2, 3 >>
    /\ last_profile_id = Str(2)
    /\ attempts = << 1 >>

\* C2: when a cycle with a non-empty page has run to completion, the state
\* file and the cursor returned to main both hold the id of the first fetched
\* profile, whatever the connects did.
C2_CursorIsFirstFetched ==
    CycleDone =>
        /\ DiskHolds(profiles[1])
        /\ last_profile_id = Str(profiles[1])

C2_Witness ==
    /\ CycleDone
    /\ Len(profiles) = 3
    /\ profiles[1] # profiles[3]
    /\ failures = {1, 2, 3}
    /\ sent = 0
    /\ last_profile_id = Str(profiles[1])

\* C3: a cycle whose fetch returns an empty list goes straight to the sleep
\* with no connect, no webhook post and no write, and leaves the cursor in
\* memory and the state file as they were.
C3_EmptyPageChangesNothing ==
    [][ Fetch(<< >>) =>
          /\ pc' = "sleep"
          /\ attempts' = << >>
          /\ posts' = << >>
          /\ writes' = 0
          /\ last_profile_id' = last_profile_id
          /\ disk' = disk ]_vars

C3_Witness ==
    /\ pc = "sleep"
    /\ fetched = "empty"
    /\ last_profile_id = Str(2)
    /\ DiskHolds(2)
    /\ ~first_cycle

\* C4: a failed connect does not end the loop: every later profile before the
\* cursor still gets its attempt; the batch result and the sent count hold
\* exactly the attempts that did not fail, and so does the text posted; and
\* the completed cycle has written the new cursor.
C4_FailedConnectIsSkipped ==
    /\ (LoopDone \/ CycleDone) =>
          /\ failures \subseteq 1 .. Len(attempts)
          /\ connected = Keep(profiles, Len(attempts), failures)
          /\ sent = Len(attempts) - Cardinality(failures)
          /\ \A i \in 1 .. Len(posts) : posts[i].content = connected
    /\ LoopDone => Len(attempts) = CursorIndex(profiles, last_profile_id) - 1
    /\ (CycleDone /\ failures # {}) =>
          /\ writes = 1
          /\ DiskHolds(profiles[1])
          /\ last_profile_id = Str(profiles[1])

C4_Witness ==
    /\ CycleDone
    /\ profiles = << 1, 2, 3 >>
    /\ failures = {1}
    /\ attempts = << 1, 2, 3 >>
    /\ connected = << 2, 3 >>
    /\ Len(posts) = 1
    /\ DiskHolds(1)

\* C5: at most one webhook post per cycle, and only when at least one connect
\* of the cycle succeeded and a webhook URL is configured.
C5_WebhookOnlyAfterSuccess ==
    /\ Len(posts) <= 1
    /\ posts # << >> =>
          /\ Len(attempts) - Cardinality(failures) > 0
          /\ Truthy(cfg.webhook_url)

C5_Witness ==
    /\ CycleDone
    /\ Truthy(cfg.webhook_url)
    /\ failures = {1, 2}
    /\ Len(attempts) = 2
    /\ posts = << >>


\* The seed cursor of the configuration: LAST_PROFILE_ID, "" when absent.
SeedOf(e) == IF e.LAST_PROFILE_ID = None THEN EmptyStr ELSE e.LAST_PROFILE_ID

\* The value under "last_profile_id" in the state file, "" when the file is
\* missing, cannot be read or parsed, or has no such key.
Stored(f) == IF f.kind = "object" /\ f.has THEN f.val ELSE EmptyStr

\* The first cycle of this process is running and has not reached its write:
\* the state file is still the one load_state read.
FirstCycleBeforeSave == first_cycle /\ pc \in {"fetch", "loop", "save"}

\* The exceptions load_state's body can raise.
LoadErrors == {"IOError", "JSONDecodeError", "UnicodeDecodeError", "AttributeError"}

\* C6: the cursor of the first cycle is the state file's value when that is a
\* non-empty string, otherwise the configured seed, otherwise "" (for a state
\* file whose value is a string or null, or that has none).
C6_StartupCursor ==
    (FirstCycleBeforeSave /\ Stored(disk) \in StrValues \cup {None}) =>
        last_profile_id =
            IF Stored(disk) \notin {EmptyStr, None} THEN Stored(disk) ELSE SeedOf(env)

C6_Witness ==
    /\ first_cycle
    /\ pc = "loop"
    /\ DiskHolds(3)
    /\ env.LAST_PROFILE_ID = Str(1)
    /\ last_profile_id = Str(3)

\* C7: a state file that is not JSON is treated as a missing one: with either,
\* the process does not end on an exception of load_state and its first cycle
\* runs with the configured seed cursor.
C7_InvalidJsonAsMissing ==
    disk.kind \in {"badjson", "missing"} =>
        /\ exit \notin LoadErrors
        /\ FirstCycleBeforeSave => last_profile_id = SeedOf(env)

C7_Witness ==
    /\ first_cycle
    /\ pc = "loop"
    /\ disk.kind = "badjson"
    /\ last_profile_id = Str(1)
    /\ attempts # << >>

\* C8: load_state never surfaces an error: whatever the state file holds, the
\* process does not end on an exception of load_state, and the first cycle
\* runs with the file's last_profile_id when it is a non-empty string and
\* with the seed otherwise.
C8_LoadStateNeverRaises ==
    /\ exit \notin LoadErrors
    /\ FirstCycleBeforeSave =>
          last_profile_id =
              IF Stored(disk) \in StrValues \ {EmptyStr} THEN Stored(disk) ELSE SeedOf(env)

\* C9: a failed fetch is answered by main's loop: the cycle goes to the sleep
\* with no connect, no write and no post, the process keeps running, the
\* cursor in memory and the state file are unchanged, and the cycle after the
\* sleep starts with that same cursor.
C9_FetchErrorSkipsCycle ==
    [][ /\ FetchError =>
              /\ pc' = "sleep"
              /\ exit' = "running"
              /\ attempts' = << >>
              /\ writes' = 0
              /\ posts' = << >>
              /\ last_profile_id' = last_profile_id
              /\ disk' = disk
        /\ (pc = "sleep" /\ fetched = "error" /\ pc' = "fetch") =>
              /\ exit' = "running"
              /\ last_profile_id' = last_profile_id
              /\ disk' = disk ]_vars

C9_Witness ==
    /\ pc = "sleep"
    /\ fetched = "error"
    /\ ~first_cycle
    /\ last_profile_id = Str(2)
    /\ DiskHolds(2)

\* C10: a failed webhook post changes nothing but the post itself: run_cycle
\* returns the first fetched id, the state file holds it, the process keeps
\* running and goes to the sleep, as after a successful post.
C10_WebhookFailureIsHarmless ==
    [][ Webhook(FALSE) =>
          /\ pc' = "sleep"
          /\ exit' = "running"
          /\ last_profile_id' = Str(profiles[1])
          /\ disk' = disk
          /\ DiskHolds(profiles[1])
          /\ UNCHANGED << cfg, cycle_locals, fetched, attempts, failures, writes >> ]_vars

C10_Witness ==
    /\ pc = "sleep"
    /\ Len(posts) = 1
    /\ ~posts[1].ok
    /\ profiles[1] = 3
    /\ last_profile_id = Str(3)
    /\ DiskHolds(3)

\* C11: the process ends only on missing required configuration (SystemExit)
\* or on an external interrupt: no outcome of a fetch, a connect, a webhook
\* post or a read or write of the state file ends it.
C11_OnlyConfigOrInterruptEnds ==
    exit \in {"running", "SystemExit", "stopped", "KeyboardInterrupt"}

\* C12: an interrupt that arrives while the process fetches, iterates,
\* persists, notifies or sleeps is answered by main's loop (print "Stopped.",
\* break), and the interrupted process does nothing more.
C12_InterruptStopsGracefully ==
    [][ (Interrupt /\ pc \in {"fetch", "loop", "save", "notify", "sleep"}) =>
          /\ exit' = "stopped"
          /\ pc' = "exited"
          /\ disk' = disk ]_vars

\* The required configuration is incomplete: BEARER_TOKEN or MESSAGE is
\* absent or empty.
MissingRequired == ~Truthy(env.BEARER_TOKEN) \/ ~Truthy(env.MESSAGE)

\* The value an optional variable takes in the configuration.
OptionalOf(e, name) == IF e[name] = None THEN EmptyStr ELSE e[name]

\* C13: with BEARER_TOKEN or MESSAGE absent or empty the process ends at
\* startup (SystemExit) before it reads the state file, fetches, connects,
\* writes or posts; an absent LAST_PROFILE_ID or DISCORD_WEBHOOK_URL does not
\* end it and stands as the empty string.
C13_MissingConfigEndsAtStartup ==
    /\ MissingRequired =>
          /\ pc \in {"load_env", "exited"}
          /\ exit \in {"running", "SystemExit", "KeyboardInterrupt"}
          /\ cfg = NoCfg
          /\ last_profile_id = None
          /\ fetched = "none"
          /\ attempts = << >>
          /\ writes = 0
          /\ posts = << >>
    /\ ~MissingRequired =>
          /\ exit # "SystemExit"
          /\ pc \notin {"load_env", "exited"} =>
                /\ cfg.env_last_id = OptionalOf(env, "LAST_PROFILE_ID")
                /\ cfg.webhook_url = OptionalOf(env, "DISCORD_WEBHOOK_URL")

\* The token is there, the message is empty, and the process has ended at startup.
C13_Witness ==
    /\ exit = "SystemExit"
    /\ Truthy(env.BEARER_TOKEN)
    /\ env.MESSAGE = Str(0)

C15_FailedNeverRetried ==
    \A i \in 1 .. Len(attempts) : attempts[i] \notin failed_before

\* C15, amended: as long as the remote list changes only by fresh ids added at
\* its front, a profile whose connect attempt failed in a cycle that advanced
\* the cursor gets no connect attempt in any later cycle of the process.
C15_FailedNotRetriedWhileListGrows ==
    front_only => \A i \in 1 .. Len(attempts) : attempts[i] \notin failed_before

\* A connect failed in an earlier cycle, the list has only grown since, and
\* the present cycle has called send_connect for a newer profile while the
\* failed one stands in the fetched page.
C15_Witness ==
    /\ front_only
    /\ failed_before # {}
    /\ attempts # << >>
    /\ pc = "sleep"
    /\ \E i \in 1 .. Len(profiles) : profiles[i] \in failed_before

\* C16: the state file is written at most once in a cycle, and only in a
\* cycle whose fetch returned at least one profile; the write comes after the
\* last connect attempt of the cycle and before the webhook post; a cycle that
\* ends early (fetch error, interrupt during the fetch or the iteration)
\* leaves the file as it was when the cycle started.
C16_OneWriteAfterConnectsBeforePost ==
    /\ [](writes <= 1 /\ (writes = 1 => fetched = "ok" /\ Len(profiles) >= 1))
    /\ [][ /\ disk' # disk =>
                 pc = "save" /\ fetched = "ok" /\ writes = 0 /\ posts = << >>
           /\ Len(attempts') > Len(attempts) => writes = 0
           /\ Len(posts') > Len(posts) => writes = 1
           /\ (FetchError \/ (Interrupt /\ pc \in {"fetch", "loop"})) =>
                 disk' = disk /\ writes = 0 ]_vars

\* A cycle has made three connect attempts, then its write, then its post.
C16_Witness ==
    /\ pc = "sleep"
    /\ Len(attempts) = MaxLen
    /\ writes = 1
    /\ Len(posts) = 1

\* C17: at the start of every cycle the cursor in memory is the value a
\* process started at that moment would compute from the state file and the
\* configuration (the value of the state file if non-empty, else the seed):
\* stopping and starting the process between two cycles changes nothing.
C17_CursorIsWhatAFreshStartComputes ==
    pc = "fetch" =>
        /\ ~load_env(env).exits
        /\ load_state(disk).raised = ""
        /\ last_profile_id =
              StartupCursor(load_state(disk).value, load_env(env).cfg.env_last_id)
        /\ last_profile_id = IF Truthy(Stored(disk)) THEN Stored(disk) ELSE SeedOf(env)

\* A later cycle of a process starts with a cursor its own write left in the
\* file, which differs from the configured seed.
C17_Witness ==
    /\ pc = "fetch"
    /\ ~first_cycle
    /\ DiskHolds(NumIds)
    /\ last_profile_id = Str(NumIds)
    /\ SeedOf(env) = Str(1)

\* C18: while the remote list changes only by fresh ids added at its front,
\* and every fetch returns its first page, no profile id gets a connect
\* attempt in two different cycles of one run of the process, whatever fetch
\* errors and connect failures occur in between.
C18_NoIdAttemptedInTwoCycles ==
    front_only => \A i \in 1 .. Len(attempts) : attempts[i] \notin tried

\* Earlier cycles of the run have tried two ids, one of them in vain; the
\* list has grown beyond a page and the present cycle has tried the newest id.
C18_Witness ==
    /\ front_only
    /\ pc = "sleep"
    /\ Cardinality(tried) = 2
    /\ failed_before # {}
    /\ Len(feed) > FeedPage
    /\ attempts = << feed[1] >>

\* C19: when two consecutive completed cycles fetch the same non-empty list,
\* the second makes no connect attempt and no webhook post, and leaves the
\* cursor in memory and the cursor in the state file equal to the id of the
\* first profile of the list, even if connects of the first cycle failed.
C19_RepeatedPageIsNoOp ==
    repeat # "no" =>
        /\ Len(profiles) >= 1
        /\ attempts = << >>
        /\ posts = << >>
        /\ last_profile_id = Str(profiles[1])
        /\ DiskHolds(profiles[1])

\* The second of two cycles on the same list of several profiles has ended;
\* a connect of the first had failed.
C19_Witness ==
    /\ repeat = "after_failure"
    /\ pc = "sleep"
    /\ writes = 1
    /\ Len(profiles) >= 2

====
